---- MODULE Spec2Model ----
(***************************************************************************)
(* Model of mkares.h: a single DNS lookup (A or AAAA) over UDP against an  *)
(* ordered list of servers.  The query object's fields are the state; the  *)
(* public setters and every system/library call made by                    *)
(* mkares_query_perform_nonnull are the actions.  The outcome of each      *)
(* external call (ares_create_query, socket, connect, send, malloc, poll,  *)
(* recv, inet_ntop) is chosen by the environment.  A query object is        *)
(* configured, then performed once.                                        *)
(***************************************************************************)
EXTENDS Integers, Sequences, FiniteSets, TLC

\* ---------------------------------------------------------------- bounds
MaxServers == 2     \* longest server list the caller configures
MaxRecords == 2     \* most address records in one response
MaxAddrs == 2       \* the environment stops sending records past this many

\* ------------------------------------------------------ program constants
attempts == 3                   \* mkares_query::attempts
ARES_SUCCESS == 0
ARES_ENODATA == 1
ARES_EBADNAME == 8
ARES_EBADRESP == 10

NULL == "NULL"      \* a null char pointer
NIL == <<>>          \* a null pointer to a structure or buffer: <<x>> points to x

Names == {"example.com"}
Ids == {4660}

\* servers the caller may add: a numeric one and one that needs a lookup
ServerPool ==
    { [address |-> "8.8.8.8", port |-> "53"],
      [address |-> "dns.google", port |-> "53"] }
NumericHosts == {"8.8.8.8"}
NumericServs == {"53"}

\* descriptors the kernel hands out
Fds == 3 .. (3 + MaxServers)

\* raw address records a response may carry (network byte order)
RawA == { <<192, 0, 2, 1>>, <<198, 51, 100, 7>> }
RawAAAA == { <<32, 1, 13, 184, 0, 0, 0, 0, 0, 0, 0, 0, 0, 0, 0, 1>>,
             <<254, 128, 0, 0, 0, 0, 0, 0, 0, 0, 0, 0, 0, 0, 0, 2>> }

\* ---------------------------------------------------------------- helpers
RECURSIVE Join(_, _)
Join(strs, sep) ==
    IF strs = <<>> THEN ""
    ELSE IF Len(strs) = 1 THEN strs[1]
    ELSE strs[1] \o sep \o Join(Tail(strs), sep)

HexDigits == "0123456789abcdef"
RECURSIVE HexStr(_)
HexStr(n) ==
    IF n < 16 THEN SubSeq(HexDigits, n + 1, n + 1)
    ELSE HexStr(n \div 16) \o SubSeq(HexDigits, (n % 16) + 1, (n % 16) + 1)

\* inet_ntop(AF_INET, ...): dotted quad
inet_ntop4(b) == Join([k \in 1..4 |-> ToString(b[k])], ".")

\* inet_ntop(AF_INET6, ...): eight hex groups, the longest run of two or more
\* zero groups (the leftmost on a tie) written as "::"
inet_ntop6(b) ==
    LET g == [k \in 1..8 |-> b[2 * k - 1] * 256 + b[2 * k]]
        runs == { r \in (1..8) \X (1..8) :
                    r[1] < r[2] /\ \A k \in r[1]..r[2] : g[k] = 0 }
        hex(lo, hi) == Join([k \in 1..(hi - lo + 1) |-> HexStr(g[lo + k - 1])], ":")
    IN  IF runs = {} THEN hex(1, 8)
        ELSE LET best == CHOOSE r \in runs : \A q \in runs :
                            \/ r[2] - r[1] > q[2] - q[1]
                            \/ r[2] - r[1] = q[2] - q[1] /\ r[1] <= q[1]
             IN  hex(1, best[1] - 1) \o "::" \o hex(best[2] + 1, 8)

\* the switch on host->h_addrtype in mkares_query_complete_
inet_ntop(af, b) == IF af = "AF_INET" THEN inet_ntop4(b) ELSE inet_ntop6(b)

SeqsUpTo(S, n) == UNION { [1..k -> S] : k \in 1..n }

\* size of the wire query ares_create_query builds: header, QNAME, QTYPE+QCLASS
QuerySize(nm) == 12 + (IF nm = "" THEN 1 ELSE Len(nm) + 2) + 4

\* getaddrinfo with AI_NUMERICHOST | AI_NUMERICSERV: no lookup is made
getaddrinfo(s) ==
    IF s.address \in NumericHosts /\ s.port \in NumericServs THEN 0 ELSE -2

\* a receive buffer nothing was received into
Blank == [kind |-> "blank"]

\* datagrams a server may answer with, reduced to what the decoder reports
Datagrams(t) ==
    { [kind |-> "bad"], [kind |-> "nodata"] } \cup
    { [kind |-> "ok", h_name |-> h, rrs |-> a] :
        h \in {NULL, "cname.example.com"},
        a \in SeqsUpTo(IF t = "ns_t_a" THEN RawA ELSE RawAAAA, MaxRecords) }

\* ares_parse_a_reply / ares_parse_aaaa_reply: <<status, hostent>>
ares_parse_reply(d, t) ==
    IF d.kind = "bad" THEN <<ARES_EBADRESP, NIL>>
    ELSE IF d.kind = "nodata" THEN <<ARES_ENODATA, NIL>>
    ELSE <<ARES_SUCCESS,
           <<[h_name |-> d.h_name,
              h_addrtype |-> IF t = "ns_t_a" THEN "AF_INET" ELSE "AF_INET6",
              h_length |-> IF t = "ns_t_a" THEN 4 ELSE 16,
              h_addr_list |-> d.rrs]>> >>

\* ------------------------------------------------------------------ state
VARIABLES
    name, type, id, servers,    \* mkares_query configuration fields
    addresses, cname,           \* mkares_query result fields
    pc,                         \* where the caller / perform stands
    result,                     \* value perform returned, once pc is "done"
    create_ret,                 \* what ares_create_query returned
    buff,                       \* the encoded query, NIL when not allocated
    sidx,                       \* position of the loop over q->servers
    rp,                         \* addrinfo of the server on trial
    fd,                         \* socket of the server on trial, -1 if none
    open,                       \* descriptors currently open
    i,                          \* attempt counter of mkares_query_sendrecv_
    rbuff,                      \* receive buffer: NIL or what it holds
    host,                       \* hostent being completed
    hpos,                       \* position in host->h_addr_list
    ret,                        \* value mkares_query_sendrecv_ returns
    trial,                      \* per server: how its trial ended
    calls,                      \* per server: system calls made for it
    accepted,                   \* the datagram on which recv_ returned 0
    call,                       \* the last public function called: its
                                \* arguments and what an accessor returned
    log                         \* q->logfile: the records of the attempt in
                                \* progress (before the first send of a trial:
                                \* of the trial); older records are not kept

vars == <<name, type, id, servers, addresses, cname, pc, result, create_ret,
          buff, sidx, rp, fd, open, i, rbuff, host, hpos, ret, trial, calls,
          accepted, call, log>>

config == <<name, type, id, servers>>
answer == <<addresses, cname>>
locals == <<buff, sidx, rp, fd, open, i, rbuff, host, hpos, ret>>
trace == <<trial, calls, accepted>>

\* no call made yet for a server
NoCalls == [getaddrinfo |-> 0, socket |-> 0, connect |-> 0, send |-> 0,
            short_at |-> 0, poll |-> 0]

\* the pointer mkares_query_new_nonnull returned
Query == <<"query">>

\* what a caller may pass as the query argument
QueryArgs == {NIL, Query}

\* a call of public function fn on query q; s1, s2 and n are its string and
\* integer arguments, str and num the string or number it returned
Api(fn, q) ==
    [fn |-> fn, query |-> q, s1 |-> "", s2 |-> "", n |-> 0, str |-> "",
     num |-> 0]

\* struct mkares_query after mkares_query_new_nonnull
Init ==
    /\ name = ""
    /\ type = "ns_t_a"
    /\ id = 0
    /\ servers = <<>>
    /\ addresses = <<>>
    /\ cname = ""
    /\ pc = "idle"
    /\ result = 0
    /\ create_ret = 0
    /\ buff = NIL
    /\ sidx = 0
    /\ rp = NIL
    /\ fd = -1
    /\ open = {}
    /\ i = 0
    /\ rbuff = NIL
    /\ host = NIL
    /\ hpos = 0
    /\ ret = 0
    /\ trial = <<>>
    /\ calls = <<>>
    /\ accepted = NIL
    /\ call = Api("mkares_query_new_nonnull", NIL)
    /\ log = <<>>

\* the query is being configured: perform has not been called yet
Idle == pc = "idle"

\* the process aborts or dies (p = "aborted", "crashed") or the query is
\* deleted (p = "deleted"): the query is no more, its fields and the locals of
\* perform are left blank
Exit(p) ==
    /\ pc' = p
    /\ name' = "" /\ type' = "ns_t_a" /\ id' = 0 /\ servers' = <<>>
    /\ addresses' = <<>> /\ cname' = ""
    /\ result' = 0 /\ create_ret' = 0
    /\ buff' = NIL /\ sidx' = 0 /\ rp' = NIL /\ fd' = -1 /\ open' = {}
    /\ i' = 0 /\ rbuff' = NIL /\ host' = NIL /\ hpos' = 0 /\ ret' = 0
    /\ trial' = <<>> /\ calls' = <<>> /\ accepted' = NIL
    /\ log' = <<>>

\* the query is no more
Gone == pc \in {"aborted", "crashed", "deleted"}

\* ---------------------------------------------------------------- setters
\* if (query == nullptr || name == nullptr) abort; query->name = name
mkares_query_set_name ==
    /\ Idle
    /\ \E q \in QueryArgs, n \in Names \cup {NULL} :
         /\ call' = [Api("mkares_query_set_name", q) EXCEPT !.s1 = n]
         /\ IF q = NIL \/ n = NULL
              THEN Exit("aborted")
              ELSE /\ name' = n
                   /\ UNCHANGED <<type, id, servers, answer, pc, result,
                                  create_ret, locals, trace, log>>

\* if (query == nullptr || address == nullptr || port == nullptr) abort;
\* query->servers.push_back(...)
mkares_query_add_server ==
    /\ Idle
    /\ Len(servers) < MaxServers
    /\ \E q \in QueryArgs,
          s \in ServerPool \cup {[address |-> NULL, port |-> "53"],
                                 [address |-> "8.8.8.8", port |-> NULL]} :
         /\ call' = [Api("mkares_query_add_server", q) EXCEPT
                        !.s1 = s.address, !.s2 = s.port]
         /\ IF q = NIL \/ s.address = NULL \/ s.port = NULL
              THEN Exit("aborted")
              ELSE /\ servers' = Append(servers, s)
                   /\ trial' = Append(trial, "untried")
                   /\ calls' = Append(calls, NoCalls)
                   /\ UNCHANGED <<name, type, id, answer, pc, result,
                                  create_ret, locals, accepted, log>>

\* if (query == nullptr) abort; query->type = ns_t_aaaa
mkares_query_set_AAAA ==
    /\ Idle
    /\ \E q \in QueryArgs :
         /\ call' = Api("mkares_query_set_AAAA", q)
         /\ IF q = NIL
              THEN Exit("aborted")
              ELSE /\ type' = "ns_t_aaaa"
                   /\ UNCHANGED <<name, id, servers, answer, pc, result,
                                  create_ret, locals, trace, log>>

\* if (query == nullptr) abort; query->id = id
mkares_query_set_id ==
    /\ Idle
    /\ \E q \in QueryArgs, v \in Ids :
         /\ call' = [Api("mkares_query_set_id", q) EXCEPT !.n = v]
         /\ IF q = NIL
              THEN Exit("aborted")
              ELSE /\ id' = v
                   /\ UNCHANGED <<name, type, servers, answer, pc, result,
                                  create_ret, locals, trace, log>>

\* -------------------------------------------------------------- accessors
\* perform is not running: the caller may read the query or release it
AtRest == pc \in {"idle", "done"}

\* an accessor leaves the query as it is
Reads ==
    UNCHANGED <<config, answer, pc, result, create_ret, locals, trace, log>>

\* if (query == nullptr) abort; return query->cname.c_str()
mkares_query_get_cname ==
    /\ AtRest
    /\ \E q \in QueryArgs :
         IF q = NIL
           THEN /\ call' = Api("mkares_query_get_cname", q)
                /\ Exit("aborted")
           ELSE /\ call' = [Api("mkares_query_get_cname", q) EXCEPT
                               !.str = cname]
                /\ Reads

\* if (query == nullptr) abort; return query->addresses.size()
mkares_query_get_addresses_size ==
    /\ AtRest
    /\ \E q \in QueryArgs :
         IF q = NIL
           THEN /\ call' = Api("mkares_query_get_addresses_size", q)
                /\ Exit("aborted")
           ELSE /\ call' = [Api("mkares_query_get_addresses_size", q) EXCEPT
                               !.num = Len(addresses)]
                /\ Reads

\* bug: an index one past the end is let through
OutOfRange_off_by_one(idx, size) == idx > size

\* idx >= query->addresses.size()
OutOfRange(idx, size) == idx >= size

\* query->addresses[idx].c_str(); reading at or past the end is not defined
c_str_at(vec, idx) == IF idx < Len(vec) THEN vec[idx + 1] ELSE "?"

\* if (query == nullptr || idx >= query->addresses.size()) abort;
\* return query->addresses[idx].c_str()
mkares_query_get_address_at ==
    /\ AtRest
    /\ \E q \in QueryArgs, idx \in 0..MaxAddrs :
         IF q = NIL \/ OutOfRange(idx, Len(addresses))
           THEN /\ call' = [Api("mkares_query_get_address_at", q) EXCEPT
                               !.n = idx]
                /\ Exit("aborted")
           ELSE /\ call' = [Api("mkares_query_get_address_at", q) EXCEPT
                               !.n = idx, !.str = c_str_at(addresses, idx)]
                /\ Reads

\* delete query: a null pointer is accepted and nothing happens
mkares_query_delete ==
    /\ AtRest
    /\ \E q \in QueryArgs :
         /\ call' = Api("mkares_query_delete", q)
         /\ IF q = NIL THEN Reads ELSE Exit("deleted")

\* ---------------------------------------------------------------- perform
\* bug: perform goes on to the servers though ares_create_query failed
perform_after_ignores_ret(r) == "servers"

\* if (ret != 0) return -1;  after ares_create_query
perform_after(r) == IF r # 0 THEN "done" ELSE "servers"

\* bug: perform reports success whatever the servers did
perform_return_always_zero(r) == 0

\* return ret;  perform hands back what mkares_query_try_each_server_ returned
perform_return(r) == r

\* bug: the list is walked from its end
server_at_reversed(k) == Len(servers) + 1 - k

\* for (auto &s : q->servers): the server the k-th turn of the loop tries
server_at(k) == k

\* bug: a server that did not resolve is tried all the same
getaddrinfo_after_ignores_ret(r) == "socket"

\* if (ret != 0) continue;  after getaddrinfo
getaddrinfo_after(r) == IF r # 0 THEN "servers" ELSE "socket"

\* bug: the loop goes on to the next server after a success
try_each_server_after_never_stops(r) == "servers"

\* bug: the loop returns after the first server whatever its outcome
try_each_server_after_first_only(r) == "done"

\* if (ret == 0) return 0;  in mkares_query_try_each_server_
try_each_server_after(r) == IF r = 0 THEN "done" ELSE "servers"

\* bug: a send of fewer bytes than the query is taken for a full one
IsShortSend_negative_only(n, sbufsiz) == n < 0

\* if (n < 0 || static_cast<size_t>(n) != sbufsiz) return -1;
IsShortSend(n, sbufsiz) == n < 0 \/ n # sbufsiz

\* bug: off by one in the loop bound
sendrecv_loop_off_by_one(k) == k <= attempts

\* bug: the loop has no bound
sendrecv_loop_unbounded(k) == TRUE

\* for (size_t i = 0; i < q->attempts; ++i)
sendrecv_loop(k) == k < attempts

\* bug: the result of connect is not looked at
connect_failed_ignored(r) == FALSE

\* if (ret != 0) return -1;  after connect
connect_failed(r) == r # 0

\* bug: a wait that timed out is taken for a readable socket
poll_failed_on_error_only(r) == r < 0

\* if (ret <= 0) return -1;  after poll
poll_failed(r) == r <= 0

\* if (ret != ARES_SUCCESS && ret != ARES_ENODATA) return -1;
\* if (ret == ARES_ENODATA) return 0;  otherwise mkares_query_complete_
recv_status(r) ==
    IF r # ARES_SUCCESS /\ r # ARES_ENODATA THEN "fail"
    ELSE IF r = ARES_ENODATA THEN "nodata"
    ELSE "complete"

\* bug: the descriptor is never closed
close_socket_leaks(o, f) == o

\* close(fd) in mkares_query_try_server_
close_socket(o, f) == o \ {f}

\* MKARES_LOG: one line {"func": f, "ret": r} written to q->logfile, l being
\* what the log holds so far
MKARES_LOG(l, f, r) == Append(l, [func |-> f, ret |-> r])

\* the newest record of log l
Last(l) == l[Len(l)]

\* the decoder mkares_query_recv_ calls for record type t
ares_parse_name(t) ==
    IF t = "ns_t_a" THEN "ares_parse_a_reply" ELSE "ares_parse_aaaa_reply"

\* bytes of datagram d, as recv returns them: header, question, records
ReplySize(d, nm, t) ==
    QuerySize(nm) +
    (IF d.kind = "ok" THEN Len(d.rrs) * (IF t = "ns_t_a" THEN 16 ELSE 28) ELSE 0)

\* bug: the new address is put in front of the list
push_back_in_front(vec, s) == <<s>> \o vec

\* q->addresses.push_back(name)
push_back(vec, s) == Append(vec, s)

\* socket(): the lowest descriptor not in use
socket(o) == CHOOSE f \in Fds \ o : \A g \in Fds \ o : f <= g

\* the server on trial
cur == server_at(sidx)

\* one more call of f made for the server on trial
Called(f) == calls' = [calls EXCEPT ![cur][f] = @ + 1]

\* how a trial that returned r ended
Ended(r) == IF r = 0 THEN "success" ELSE "failure"

\* bug: the first failed attempt ends the trial
recv_failed_gives_up ==
    /\ rbuff' = NIL
    /\ host' = NIL
    /\ hpos' = 0
    /\ i' = i + 1
    /\ accepted' = accepted
    /\ pc' = "close" /\ ret' = -1

\* mkares_query_recv_ returned nonzero: free(rbuff), ++i, test the loop
recv_failed ==
    /\ rbuff' = NIL
    /\ host' = NIL
    /\ hpos' = 0
    /\ i' = i + 1
    /\ accepted' = accepted
    /\ IF sendrecv_loop(i + 1)
         THEN pc' = "send" /\ ret' = ret
         ELSE pc' = "close" /\ ret' = -1

\* bug: the loop of sendrecv_ goes on after a response was accepted
recv_succeeded_keeps_sending(d) ==
    /\ rbuff' = NIL
    /\ host' = NIL
    /\ hpos' = 0
    /\ i' = i + 1
    /\ accepted' = <<d>>
    /\ ret' = 0
    /\ pc' = IF sendrecv_loop(i + 1) THEN "send" ELSE "close"

\* mkares_query_recv_ returned zero on datagram d: free(rbuff), sendrecv_
\* returns 0
recv_succeeded(d) ==
    /\ rbuff' = NIL
    /\ host' = NIL
    /\ hpos' = 0
    /\ i' = i
    /\ accepted' = <<d>>
    /\ ret' = 0
    /\ pc' = "close"

\* if (query == nullptr) abort; then ares_create_query
mkares_query_perform_nonnull ==
    /\ Idle
    /\ \E q \in QueryArgs :
         /\ call' = Api("mkares_query_perform_nonnull", q)
         /\ IF q = NIL
              THEN Exit("aborted")
              ELSE /\ sidx' = 0
                   /\ \E r \in {ARES_SUCCESS, ARES_EBADNAME} :
                        /\ create_ret' = r
                        /\ pc' = perform_after(r)
                        /\ result' = IF perform_after(r) = "done" THEN -1
                                     ELSE result
                        /\ buff' = IF r # ARES_SUCCESS THEN NIL
                                   ELSE <<[qname |-> name, qtype |-> type,
                                           qid |-> id,
                                           size |-> QuerySize(name)]>>
                        /\ log' = MKARES_LOG(<<>>, "ares_create_query", r)
                   /\ UNCHANGED <<config, answer, rp, fd, open, i, rbuff, host,
                                  hpos, ret, trace>>

\* perform called again on a query it has returned from: nothing in perform
\* tests for it and nothing resets q->addresses or q->cname; the run starts
\* over from ares_create_query
mkares_query_perform_again ==
    /\ pc = "done"
    /\ call' = Api("mkares_query_perform_nonnull", Query)
    /\ sidx' = 0
    /\ \E r \in {ARES_SUCCESS, ARES_EBADNAME} :
         /\ create_ret' = r
         /\ pc' = perform_after(r)
         /\ result' = IF perform_after(r) = "done" THEN -1 ELSE result
         /\ buff' = IF r # ARES_SUCCESS THEN NIL
                    ELSE <<[qname |-> name, qtype |-> type, qid |-> id,
                            size |-> QuerySize(name)]>>
         /\ log' = MKARES_LOG(<<>>, "ares_create_query", r)
    /\ trial' = [j \in DOMAIN servers |-> "untried"]
    /\ calls' = [j \in DOMAIN servers |-> NoCalls]
    /\ accepted' = NIL
    /\ UNCHANGED <<config, answer, rp, fd, open, i, rbuff, host, hpos, ret>>

\* the loop over q->servers ran out: return -1, ares_free_string(buff)
try_each_server_exhausted ==
    /\ pc = "servers"
    /\ sidx = Len(servers)
    /\ pc' = "done"
    /\ result' = perform_return(-1)
    /\ buff' = NIL
    /\ UNCHANGED <<config, call, answer, create_ret, sidx, rp, fd, open, i, rbuff,
                   host, hpos, ret, trace, log>>

\* next server of the loop: getaddrinfo, "continue" when it fails
try_each_server_getaddrinfo ==
    /\ pc = "servers"
    /\ sidx < Len(servers)
    /\ sidx' = sidx + 1
    /\ LET s == server_at(sidx + 1)
           r == getaddrinfo(servers[s])
       IN  /\ calls' = [calls EXCEPT ![s].getaddrinfo = @ + 1]
           /\ pc' = getaddrinfo_after(r)
           /\ rp' = IF r # 0 THEN NIL
                    ELSE <<[ai_family |-> "AF_INET", ai_addr |-> servers[s]]>>
           /\ trial' = IF getaddrinfo_after(r) = "servers"
                         THEN [trial EXCEPT ![s] = "failure"]
                         ELSE [trial EXCEPT ![s] = "running"]
           /\ log' = MKARES_LOG(<<>>, "getaddrinfo", r)
    /\ UNCHANGED <<config, call, answer, result, create_ret, buff, fd, open, i,
                   rbuff, host, hpos, ret, accepted>>

\* mkares_query_try_server_: socket()
try_server_socket ==
    /\ pc = "socket"
    /\ Called("socket")
    /\ \E f \in {-1, socket(open)} :
         /\ log' = MKARES_LOG(log, "socket", f)
         /\ IF f = -1
              THEN /\ pc' = try_each_server_after(-1)
                   /\ rp' = NIL
                   /\ trial' = [trial EXCEPT ![cur] = Ended(-1)]
                   /\ UNCHANGED <<fd, open>>
              ELSE /\ pc' = "connect"
                   /\ fd' = f
                   /\ open' = open \cup {f}
                   /\ UNCHANGED <<rp, trial>>
    /\ UNCHANGED <<config, call, answer, result, create_ret, buff, sidx, i, rbuff,
                   host, hpos, ret, accepted>>

\* mkares_query_sendrecv_: connect()
sendrecv_connect ==
    /\ pc = "connect"
    /\ Called("connect")
    /\ i' = 0
    /\ \E r \in {0, -1} :
         /\ log' = MKARES_LOG(log, "connect", r)
         /\ IF connect_failed(r) \/ ~sendrecv_loop(0)
              THEN pc' = "close" /\ ret' = -1
              ELSE pc' = "send" /\ ret' = ret
    /\ UNCHANGED <<config, call, answer, result, create_ret, buff, sidx, rp, fd,
                   open, rbuff, host, hpos, trial, accepted>>

\* one turn of the loop: send(), then malloc() of the receive buffer
sendrecv_send ==
    /\ pc = "send"
    /\ call' = call
    /\ \E n \in {-1, buff[1].size - 1, buff[1].size}, m \in {NIL, <<Blank>>} :
         IF ~IsShortSend(n, buff[1].size) /\ m = NIL
           THEN Exit("aborted")
           ELSE /\ calls' = [calls EXCEPT
                               ![cur].send = @ + 1,
                               ![cur].short_at =
                                   IF n # buff[1].size THEN calls[cur].send + 1
                                   ELSE @]
                /\ log' = MKARES_LOG(<<>>, "send", n)
                /\ IF IsShortSend(n, buff[1].size)
                     THEN pc' = "close" /\ ret' = -1 /\ rbuff' = NIL
                     ELSE pc' = "poll" /\ ret' = ret /\ rbuff' = m
                /\ UNCHANGED <<config, answer, result, create_ret, buff, sidx,
                               rp, fd, open, i, host, hpos, trial, accepted>>

\* mkares_query_recv_: poll()
recv_poll ==
    /\ pc = "poll"
    /\ \E r \in {-1, 0, 1} :
         /\ log' = MKARES_LOG(log, "poll", r)
         /\ Called("poll")
         /\ IF poll_failed(r)
              THEN recv_failed
              ELSE pc' = "recv" /\ UNCHANGED <<rbuff, host, hpos, i, ret, accepted>>
    /\ UNCHANGED <<config, call, answer, result, create_ret, buff, sidx, rp, fd,
                   open, trial>>

\* mkares_query_recv_: recv()
recv_recv ==
    /\ pc = "recv"
    /\ \/ \E n \in {-1, 0} : log' = MKARES_LOG(log, "recv", n) /\ recv_failed
       \/ \E d \in Datagrams(type) :
            /\ d.kind = "ok" => Len(addresses) + Len(d.rrs) <= MaxAddrs
            /\ log' = MKARES_LOG(log, "recv", ReplySize(d, name, type))
            /\ rbuff' = <<d>>
            /\ pc' = "parse"
            /\ UNCHANGED <<host, hpos, i, ret, accepted>>
    /\ UNCHANGED <<config, call, answer, result, create_ret, buff, sidx, rp, fd,
                   open, trial, calls>>

\* mkares_query_recv_: ares_parse_*_reply(), then the head of
\* mkares_query_complete_ (q->cname = host->h_name)
recv_parse ==
    /\ pc = "parse"
    /\ LET p == ares_parse_reply(rbuff[1], type)
           st == recv_status(p[1])
       IN  /\ log' = MKARES_LOG(log, ares_parse_name(type), p[1])
           /\ CASE st = "fail" -> recv_failed /\ UNCHANGED answer
                [] st = "nodata" -> recv_succeeded(rbuff[1]) /\ UNCHANGED answer
                [] OTHER ->
                     /\ cname' = IF p[2][1].h_name # NULL THEN p[2][1].h_name
                                 ELSE cname
                     /\ addresses' = addresses
                     /\ IF p[2][1].h_addr_list = <<>>
                          THEN recv_succeeded(rbuff[1])
                          ELSE /\ host' = p[2]
                               /\ hpos' = 1
                               /\ pc' = "inet_ntop"
                               /\ UNCHANGED <<rbuff, i, ret, accepted>>
    /\ UNCHANGED <<config, call, result, create_ret, buff, sidx, rp, fd, open,
                   trial, calls>>

\* one turn of the loop of mkares_query_complete_: inet_ntop(), its log
\* record, push_back(). When inet_ntop returns a null pointer the record's
\* {"ret", s} builds a JSON string from a null const char *, which is undefined
\* behaviour: the process dies there (exception or fault), or it goes on to
\* "if (s == nullptr) return -1".
complete_inet_ntop ==
    /\ pc = "inet_ntop"
    /\ call' = call
    /\ \E s \in {NULL, inet_ntop(host[1].h_addrtype, host[1].h_addr_list[hpos])} :
         \/ s = NULL /\ Exit("crashed")
         \/ /\ log' = MKARES_LOG(log, "inet_ntop", s)
            /\ IF s = NULL
                 THEN recv_failed /\ UNCHANGED answer
                 ELSE /\ addresses' = push_back(addresses, s)
                      /\ cname' = cname
                      /\ IF hpos = Len(host[1].h_addr_list)
                           THEN recv_succeeded(rbuff[1])
                           ELSE /\ hpos' = hpos + 1
                                /\ UNCHANGED <<pc, rbuff, host, i, ret,
                                               accepted>>
            /\ UNCHANGED <<config, result, create_ret, buff, sidx, rp, fd,
                           open, trial, calls>>

\* mkares_query_try_server_: close(fd); back in try_each_server_:
\* freeaddrinfo(rp) and the test of ret; perform returns when it is zero
try_server_close ==
    /\ pc = "close"
    /\ open' = close_socket(open, fd)
    /\ fd' = -1
    /\ rp' = NIL
    /\ trial' = [trial EXCEPT ![cur] = Ended(ret)]
    /\ pc' = try_each_server_after(ret)
    /\ IF try_each_server_after(ret) = "done"
         THEN result' = perform_return(ret) /\ buff' = NIL
         ELSE UNCHANGED <<result, buff>>
    /\ i' = 0
    /\ ret' = 0
    /\ log' = <<>>
    /\ UNCHANGED <<config, call, answer, create_ret, sidx, rbuff, host, hpos, calls,
                   accepted>>

Next ==
    \/ mkares_query_set_name
    \/ mkares_query_add_server
    \/ mkares_query_set_AAAA
    \/ mkares_query_set_id
    \/ mkares_query_get_cname
    \/ mkares_query_get_addresses_size
    \/ mkares_query_get_address_at
    \/ mkares_query_delete
    \/ mkares_query_perform_nonnull
    \/ try_each_server_exhausted
    \/ try_each_server_getaddrinfo
    \/ try_server_socket
    \/ sendrecv_connect
    \/ sendrecv_send
    \/ recv_poll
    \/ recv_recv
    \/ recv_parse
    \/ complete_inet_ntop
    \/ try_server_close

Spec == Init /\ [][Next]_vars

\* a step of perform after its entry: each is one call that returns
PerformStep ==
    \/ try_each_server_exhausted
    \/ try_each_server_getaddrinfo
    \/ try_server_socket
    \/ sendrecv_connect
    \/ sendrecv_send
    \/ recv_poll
    \/ recv_recv
    \/ recv_parse
    \/ complete_inet_ntop
    \/ try_server_close

\* the life of a query of the default name and id: servers are added, the
\* type is chosen, perform is called once
NextLife ==
    \/ mkares_query_add_server /\ pc' = "idle"
    \/ mkares_query_set_AAAA /\ pc' = "idle"
    \/ mkares_query_perform_nonnull /\ pc' # "aborted"
    \/ PerformStep

\* every call perform makes returns (poll within q->timeout): perform, once
\* entered, keeps taking steps while it has one to take
FairSpec == Init /\ [][NextLife]_vars /\ WF_vars(PerformStep)

\* ------------------------------------------------------------- scenarios
\* a setter called within its contract on a query that has, or gets, a single
\* server, which resolves
Configures ==
    /\ pc' = "idle"
    /\ Len(servers') <= 1
    /\ \A j \in DOMAIN servers' : getaddrinfo(servers'[j]) = 0

\* perform called on a query with one server, and the query is encoded
Starts == servers # <<>> /\ pc' = "servers"

\* the local call of this step succeeded: a socket, a connect that returned
\* zero, a full-length send, a receive buffer
Works ==
    /\ pc' # "aborted"
    /\ pc = "socket" => Last(log').ret >= 0
    /\ pc = "connect" => Last(log').ret = 0
    /\ pc = "send" => Last(log').ret = buff[1].size

\* the wait of this step timed out
TimesOut == Last(log').ret = 0

\* a single resolvable server that never answers: every local call succeeds
\* and every poll returns 0
NextTimeouts ==
    \/ mkares_query_set_name /\ Configures
    \/ mkares_query_add_server /\ Configures
    \/ mkares_query_set_AAAA /\ Configures
    \/ mkares_query_set_id /\ Configures
    \/ mkares_query_perform_nonnull /\ Starts
    \/ try_each_server_exhausted
    \/ try_each_server_getaddrinfo
    \/ try_server_socket /\ Works
    \/ sendrecv_connect /\ Works
    \/ sendrecv_send /\ Works
    \/ recv_poll /\ TimesOut
    \/ try_server_close

SpecTimeouts == Init /\ [][NextTimeouts]_vars

\* the wait of this step timed out or found the socket readable
Waits == Last(log').ret >= 0

\* the datagram received in this step is a response with address records
Valid == pc' = "parse" /\ rbuff'[1].kind = "ok"

\* the record of this step was formatted
Formats == pc' # "crashed" /\ Last(log').ret # NULL

\* a single resolvable server that answers at some attempt, or never: every
\* local call succeeds, a wait times out or is followed by the receipt of a
\* response with address records, all of which are formatted
NextAnswers ==
    \/ mkares_query_set_name /\ Configures
    \/ mkares_query_add_server /\ Configures
    \/ mkares_query_set_AAAA /\ Configures
    \/ mkares_query_set_id /\ Configures
    \/ mkares_query_perform_nonnull /\ Starts
    \/ try_each_server_exhausted
    \/ try_each_server_getaddrinfo
    \/ try_server_socket /\ Works
    \/ sendrecv_connect /\ Works
    \/ sendrecv_send /\ Works
    \/ recv_poll /\ Waits
    \/ recv_recv /\ Valid
    \/ recv_parse
    \/ complete_inet_ntop /\ Formats
    \/ try_server_close

SpecAnswers == Init /\ [][NextAnswers]_vars

\* a query with at most one server, which resolves, on which perform may be
\* called again after it has returned
NextRerun ==
    \/ mkares_query_set_name /\ Configures
    \/ mkares_query_add_server /\ Configures
    \/ mkares_query_set_AAAA /\ Configures
    \/ mkares_query_set_id /\ Configures
    \/ mkares_query_perform_nonnull /\ pc' # "aborted"
    \/ mkares_query_perform_again
    \/ try_each_server_exhausted
    \/ try_each_server_getaddrinfo
    \/ try_server_socket
    \/ sendrecv_connect
    \/ sendrecv_send
    \/ recv_poll
    \/ recv_recv
    \/ recv_parse
    \/ complete_inet_ntop
    \/ try_server_close

SpecRerun == Init /\ [][NextRerun]_vars

TypeOK ==
    /\ pc \in {"idle", "servers", "socket", "connect", "send", "poll", "recv",
               "parse", "inet_ntop", "close", "done", "aborted", "crashed",
               "deleted"}
    /\ result \in {0, -1}
    /\ sidx \in 0..Len(servers)
    /\ Len(servers) <= MaxServers
    /\ Len(trial) = Len(servers) /\ Len(calls) = Len(servers)
    /\ Len(addresses) <= MaxAddrs

\* ----------------------------------------------------------------- claims
Done == pc = "done"

\* what the formatter makes of every record of datagram d
Formatted(d) ==
    [k \in 1..Len(d.rrs) |->
        inet_ntop(IF type = "ns_t_a" THEN "AF_INET" ELSE "AF_INET6", d.rrs[k])]

\* C1: once a server's trial has reported Success, perform has returned
\* Success and no getaddrinfo, socket, connect or send was made for any server
\* later in the list.
C1_StopsAtFirstSuccess ==
    \A k \in DOMAIN trial :
        trial[k] = "success" =>
            /\ Done /\ result = 0
            /\ \A j \in DOMAIN calls : j > k => calls[j] = NoCalls

\* a first server succeeded while a second, resolvable one was configured
C1_Witness ==
    /\ Done /\ Len(servers) = 2
    /\ trial[1] = "success"
    /\ getaddrinfo(servers[2]) = 0

\* C2: servers are tried in the order they were added: a call is made for
\* server j only once every earlier server's trial has ended in failure, and
\* Failure is returned only after every server was tried, so that a failed
\* server never keeps a later one from answering.
C2_TriedInOrder ==
    /\ \A j \in DOMAIN calls :
          calls[j] # NoCalls => \A k \in 1..(j - 1) : trial[k] = "failure"
    /\ Done /\ result = -1 /\ create_ret = 0 =>
          \A j \in DOMAIN calls : calls[j].getaddrinfo = 1

\* the first server failed after being contacted, the second one answered
C2_Witness ==
    /\ Done /\ result = 0 /\ Len(servers) = 2
    /\ trial[1] = "failure" /\ calls[1].send > 0
    /\ trial[2] = "success" /\ addresses # <<>>

\* C3: with no server configured perform returns Failure, and never opens a
\* socket or sends, whatever the name, record type and id.
C3_EmptyServerList ==
    servers = <<>> /\ ~Gone =>
        /\ pc \in {"idle", "servers", "done"}
        /\ open = {} /\ fd = -1 /\ rp = NIL
        /\ Done => result = -1

\* perform returned on an empty list with non-default name, type and id,
\* the query having been encoded
C3_Witness ==
    /\ Done /\ servers = <<>> /\ create_ret = 0
    /\ name # "" /\ type = "ns_t_aaaa" /\ id # 0

\* C4: perform returns -1 or 0; -1 exactly when the query was not encoded or
\* every server's trial failed, 0 exactly when some trial succeeded; and a
\* failed trial is a resolve, socket or connect failure, a short send or an
\* exhausted attempt budget.
C4_AggregateOutcome ==
    /\ Done =>
          /\ result \in {0, -1}
          /\ result = -1 <=>
                (create_ret # 0 \/ \A j \in DOMAIN trial : trial[j] = "failure")
          /\ result = 0 <=> \E j \in DOMAIN trial : trial[j] = "success"
    /\ \A j \in DOMAIN trial :
          trial[j] = "failure" =>
             \/ calls[j].getaddrinfo = 1 /\ calls[j].socket = 0
             \/ calls[j].socket = 1 /\ calls[j].connect = 0
             \/ calls[j].connect = 1 /\ calls[j].send = 0
             \/ calls[j].send >= 1 /\ calls[j].short_at = calls[j].send
             \/ calls[j].send = attempts /\ calls[j].short_at = 0

\* Failure after two servers failed for different reasons
C4_Witness ==
    /\ Done /\ result = -1 /\ create_ret = 0 /\ Len(servers) = 2
    /\ calls[1].send = attempts /\ calls[1].short_at = 0
    /\ calls[2].connect = 1 /\ calls[2].send = 0

\* C5: no server is sent to more than attempts times, and a server whose
\* first send was short got exactly that one send and its trial fails.
C5_SendBudget ==
    \A j \in DOMAIN calls :
        /\ calls[j].send <= attempts
        /\ calls[j].short_at = 1 =>
              /\ calls[j].send = 1
              /\ \/ trial[j] = "failure"
                 \/ cur = j /\ pc = "close" /\ ret = -1

\* one server got the full budget of sends, another a short first send
C5_Witness ==
    /\ Len(servers) = 2
    /\ calls[1].send = attempts /\ trial[1] = "failure"
    /\ calls[2].short_at = 1 /\ trial[2] = "failure"

\* C6: when perform returns after the decoder reported NODATA, it returns
\* Success and the address list is empty.
C6_NodataIsEmptySuccess ==
    Done /\ accepted # NIL /\ accepted[1].kind = "nodata" =>
        result = 0 /\ addresses = <<>>

\* C7: at most one socket is open at any time, it is the one of the server
\* on trial, and none is open between two servers or once perform returned.
C7_OneSocketClosed ==
    /\ Cardinality(open) <= 1
    /\ open # {} => open = {fd}
    /\ pc \in {"idle", "servers", "socket", "done"} => open = {}

\* a socket was opened and sent on for the first server and a second server
\* is about to be resolved
C7_Witness ==
    /\ pc = "servers" /\ sidx = 1 /\ Len(servers) = 2
    /\ calls[1].send > 0

\* C8: when perform returns Success on a response with N address records,
\* the address list is exactly these N records, formatted, in their order.
C8_AcceptedReplaces ==
    Done /\ result = 0 /\ accepted # NIL /\ accepted[1].kind = "ok" =>
        addresses = Formatted(accepted[1])

\* C9: when perform returns Failure the address list and the canonical name
\* are empty.
C9_NothingKeptOnFailure ==
    Done /\ result = -1 => addresses = <<>> /\ cname = ""

\* C10: when ares_create_query fails perform returns Failure and no call is
\* made for any server.
C10_EncodeFailure ==
    create_ret # 0 =>
        /\ Done /\ result = -1
        /\ open = {} /\ fd = -1
        /\ \A j \in DOMAIN calls : calls[j] = NoCalls /\ trial[j] = "untried"

\* the encoder failed with a full list of servers configured
C10_Witness ==
    /\ create_ret # 0 /\ Done
    /\ Len(servers) = MaxServers
    /\ \A j \in DOMAIN servers : getaddrinfo(servers[j]) = 0

\* C11: a server that fails numeric resolution is only skipped: no socket,
\* connect or send is made for it, its trial is a failure, the loop moves on
\* (perform does not return on it unless it is the last server), and a later
\* server may still succeed.
C11_UnresolvedIsSkipped ==
    \A j \in DOMAIN servers :
        getaddrinfo(servers[j]) # 0 /\ calls[j].getaddrinfo > 0 =>
            /\ calls[j] = [NoCalls EXCEPT !.getaddrinfo = 1]
            /\ trial[j] = "failure"
            /\ sidx >= j
            /\ sidx = j => pc \in {"servers", "done"}
            /\ Done /\ sidx = j => j = Len(servers) /\ result = -1

\* the first server did not resolve, the second one answered
C11_Witness ==
    /\ Done /\ result = 0 /\ Len(servers) = 2
    /\ getaddrinfo(servers[1]) # 0
    /\ trial = <<"failure", "success">>

\* the step wrote exactly one record, of call f, after what the log held
Appended(f) ==
    /\ Len(log') = Len(log) + 1
    /\ \A k \in 1..Len(log) : log'[k].func = log[k].func
    /\ Last(log').func = f

\* the step wrote exactly one record, of call f, the first of a new attempt
\* or trial
Opened(f) == Len(log') = 1 /\ log'[1].func = f

\* the calls perform makes, each writing one record when it returns
CallsLogged ==
    /\ pc = "idle" /\ pc' \in {"servers", "done"} => Opened("ares_create_query")
    /\ pc = "servers" /\ sidx' # sidx => Opened("getaddrinfo")
    /\ pc = "socket" => Appended("socket")
    /\ pc = "connect" => Appended("connect")
    /\ pc = "send" => Opened("send")
    /\ pc = "poll" => Appended("poll")
    /\ pc = "recv" => Appended("recv")
    /\ pc = "parse" => Appended(ares_parse_name(type))
    /\ pc = "inet_ntop" /\ pc' # "crashed" => Appended("inet_ntop")

\* a step on which the trial of some server ends
TrialEnds ==
    \E j \in DOMAIN trial :
        trial[j] \in {"untried", "running"} /\ trial'[j] \in {"success", "failure"}

\* a step on which perform returns
Returns == pc # "done" /\ pc' = "done"

\* C12: every operation of perform appends exactly one log record: each call
\* (resolve, socket-open, connect, send, wait, receive, decode), and also each
\* per-server outcome and the overall outcome.
C12_EveryOperationLogged ==
    [][/\ CallsLogged
       /\ TrialEnds =>
            \E k \in DOMAIN log' : log'[k].func = "mkares_query_try_server_"
       /\ Returns =>
            /\ log' # <<>>
            /\ Last(log').func = "mkares_query_perform_nonnull"]_vars

\* call c breaks the contract of a function that checks its arguments, the
\* address list holding size entries when it is made
ContractBroken(c, size) ==
    \/ c.query = NIL /\ c.fn # "mkares_query_delete"
    \/ c.fn = "mkares_query_set_name" /\ c.s1 = NULL
    \/ c.fn = "mkares_query_add_server" /\ (c.s1 = NULL \/ c.s2 = NULL)
    \/ c.fn = "mkares_query_get_address_at" /\ c.n >= size

\* the steps of perform on which a runtime failure shows: resolution,
\* socket, connect, wait, receive, decode
RuntimeSteps == {"servers", "socket", "connect", "poll", "recv", "parse", "close"}

\* C13 (as the code has it): a public call that breaks the contract - a null
\* query given to any function but mkares_query_delete, a null name, address
\* or port, an index at or past the end of the address list - aborts instead
\* of returning; no other public call aborts; and no runtime failure inside
\* perform (resolve, connect, timeout, malformed response) aborts.
C13_ContractViolationsAbort ==
    [][/\ AtRest => (pc' = "aborted" <=> ContractBroken(call', Len(addresses)))
       /\ pc \in RuntimeSteps => pc' # "aborted"]_vars

\* C13: the same, with every public function aborting on a null query, as
\* the claim words it.
C13_AnyNullQueryAborts ==
    [][/\ AtRest =>
            (pc' = "aborted" <=>
                call'.query = NIL \/ ContractBroken(call', Len(addresses)))
       /\ pc \in RuntimeSteps => pc' # "aborted"]_vars

\* mkares_query_get_address_at was called on the query with index 1 and
\* aborted
C13_Witness ==
    /\ pc = "aborted"
    /\ call.fn = "mkares_query_get_address_at"
    /\ call.query = Query /\ call.n = 1

\* the calls that receive and decode a response
ReceivePath == {"recv", "ares_parse_a_reply", "ares_parse_aaaa_reply", "inet_ntop"}

\* C14: with a single resolvable server on which every wait times out, there
\* is never a receive or a decode, and perform returns Failure after exactly
\* `attempts` sends and `attempts` waits.
C14_AllWaitsTimeOut ==
    /\ pc \notin {"recv", "parse", "inet_ntop"}
    /\ \A k \in DOMAIN log : log[k].func \notin ReceivePath
    /\ Done =>
         /\ result = -1 /\ trial = <<"failure">>
         /\ calls[1].send = attempts /\ calls[1].poll = attempts
         /\ addresses = <<>>

\* perform returned after three sends and three timed-out waits
C14_Witness ==
    /\ Done /\ result = -1
    /\ calls[1].send = 3 /\ calls[1].poll = 3

\* C15: with a single server whose first k-1 attempts time out and whose
\* k-th attempt (k <= attempts) receives a response with a valid record set,
\* the trial makes exactly k sends and k waits, nothing is sent after the
\* response, and perform returns Success with the address list holding the
\* records of that response, in order.
C15_AnswerAtAttemptK ==
    /\ accepted # NIL =>
         /\ pc \in {"close", "done"}
         /\ calls[1].send = calls[1].poll
         /\ calls[1].send <= attempts
         /\ pc = "close" => ret = 0 /\ calls[1].send = i + 1
         /\ addresses = Formatted(accepted[1])
    /\ Done /\ result = 0 => accepted # NIL /\ trial = <<"success">>
    /\ Done /\ accepted # NIL => result = 0

\* the server answered the second attempt with two address records
C15_Witness ==
    /\ Done /\ result = 0
    /\ calls[1].send = 2 /\ calls[1].poll = 2
    /\ Len(accepted[1].rrs) = 2 /\ Len(addresses) = 2

\* a wait that timed out or failed, a receive of zero or fewer bytes, a
\* decoder error other than NODATA: the step on which one of them happens
AttemptFails ==
    \/ pc = "poll" /\ Last(log').ret <= 0
    \/ pc = "recv" /\ Last(log').ret <= 0
    \/ pc = "parse" /\ Last(log').ret \notin {ARES_SUCCESS, ARES_ENODATA}

\* C16: a timeout, a receive of zero or fewer bytes and a decoder error other
\* than NODATA each end only the current attempt: the trial and its socket
\* stay as they are and, if fewer than `attempts` sends were made, a new send
\* comes next; after a connect that succeeded the trial ends in failure only
\* on a short send or when `attempts` sends were made.
C16_FailedAttemptIsRetried ==
    [][/\ AttemptFails =>
            /\ trial' = trial /\ sidx' = sidx /\ fd' = fd /\ open' = open
            /\ IF calls[cur].send < attempts
                 THEN pc' = "send"
                 ELSE pc' = "close" /\ ret' = -1
       /\ pc' = "close" /\ pc \notin {"close", "connect"} /\ ret' # 0 =>
            \/ calls'[cur].short_at = calls'[cur].send
            \/ calls'[cur].send = attempts]_vars

\* a malformed response ended the first attempt and a second send is due
C16_Witness ==
    /\ pc = "send" /\ calls[cur].send = 1
    /\ Last(log).func = ares_parse_name(type)
    /\ Last(log).ret = ARES_EBADRESP

\* C17: when connect fails the trial ends in failure with no send made for
\* that server; its socket is closed all the same, and the loop goes on to
\* the next server (or returns Failure when there is none).
C17_ConnectFailure ==
    [][/\ pc = "connect" /\ Last(log').ret # 0 =>
            /\ pc' = "close" /\ ret' = -1
            /\ calls'[cur].send = 0
            /\ fd' = fd /\ open' = open
       /\ pc = "close" /\ calls[cur].send = 0 =>
            /\ fd \in open /\ open' = {} /\ fd' = -1
            /\ trial'[cur] = "failure"
            /\ pc' = "servers" /\ sidx' = sidx
       /\ pc = "servers" =>
            \/ sidx' = sidx + 1
            \/ sidx = Len(servers) /\ pc' = "done" /\ result' = -1]_vars

\* connect failed on the first server, nothing was sent to it, and the
\* second server answered
C17_Witness ==
    /\ Done /\ result = 0 /\ Len(servers) = 2
    /\ calls[1].connect = 1 /\ calls[1].send = 0
    /\ trial = <<"failure", "success">>
    /\ open = {}

\* sequence a is the beginning of sequence b
IsPrefix(a, b) == Len(a) <= Len(b) /\ SubSeq(b, 1, Len(a)) = a

\* C18: perform never clears, removes or reorders result data: on every step
\* the address list before is a prefix of the list after; calling perform on
\* a query it has returned from is not rejected and resets neither the
\* addresses nor the cname, so the addresses of a second run come after
\* those of the first.
C18_ResultsOnlyGrow ==
    [][pc' \notin {"aborted", "crashed"} =>
         /\ IsPrefix(addresses, addresses')
         /\ pc = "done" => pc' \in {"servers", "done"} /\ answer' = answer]_vars

\* a run of one attempt, whose response held one record, has returned with
\* that record second in the list: the first entry is from an earlier run
C18_Witness ==
    /\ Done /\ result = 0
    /\ Len(servers) = 1 /\ calls[1].send = 1
    /\ accepted # NIL /\ accepted[1].kind = "ok" /\ Len(accepted[1].rrs) = 1
    /\ Len(addresses) = 2
    /\ addresses[2] = Formatted(accepted[1])[1]

\* the records of an attempt, l, are those of a full-length send of the
\* query for name nm, a wait that returned positive, a receive of a positive
\* number of bytes, and a decode for type t that reported NODATA or reported
\* the records of datagram d, every one of which was then formatted
AcceptingAttempt(l, nm, t, d) ==
    /\ Len(l) >= 4
    /\ l[1].func = "send" /\ l[1].ret = QuerySize(nm)
    /\ l[2].func = "poll" /\ l[2].ret > 0
    /\ l[3].func = "recv" /\ l[3].ret > 0
    /\ l[4].func = ares_parse_name(t)
    /\ \/ l[4].ret = ARES_ENODATA /\ Len(l) = 4
       \/ /\ l[4].ret = ARES_SUCCESS
          /\ Len(l) = 4 + Len(d.rrs)
          /\ \A k \in 5..Len(l) : l[k].func = "inet_ntop" /\ l[k].ret # NULL

\* C19: perform returns Success only from the trial of the last server tried,
\* when the last operations of that trial were, in order, a full-length send,
\* a wait that returned positive, a receive that returned a positive byte
\* count and a decode that reported NODATA or a record set every record of
\* which was formatted; so never without a datagram received in that run.
C19_SuccessNeedsAnAnswer ==
    [][Returns /\ result' = 0 =>
         /\ pc = "close" /\ ret = 0
         /\ accepted # NIL /\ accepted' = accepted
         /\ AcceptingAttempt(log, name, type, accepted[1])
         /\ trial' = [trial EXCEPT ![cur] = "success"]
         /\ \A j \in DOMAIN trial : j > cur => trial[j] = "untried"]_vars

\* perform returned Success on the answer to the third send, two records
C19_Witness ==
    /\ Done /\ result = 0
    /\ calls[1].send = 3 /\ calls[1].poll = 3
    /\ accepted # NIL /\ accepted[1].kind = "ok" /\ Len(accepted[1].rrs) = 2

\* perform has been entered and has neither returned nor died
Running ==
    pc \in {"servers", "socket", "connect", "send", "poll", "recv", "parse",
            "inet_ntop", "close"}

\* calls of f made so far for the first k servers
RECURSIVE Total(_, _)
Total(f, k) == IF k = 0 THEN 0 ELSE calls[k][f] + Total(f, k - 1)

\* C20 (as the code has it): every call returning, perform once entered
\* comes to an end: it returns Success or Failure, or the process aborts on a
\* failed malloc or dies logging a null inet_ntop result; and at any time it
\* has made at most |servers| resolutions, at most |servers| sockets and at
\* most |servers| * attempts sends.
C20_TerminatesWithinBudget ==
    /\ [](/\ Total("getaddrinfo", Len(calls)) <= Len(servers)
          /\ Total("socket", Len(calls)) <= Len(servers)
          /\ Total("send", Len(calls)) <= Len(servers) * attempts
          /\ Done => result \in {0, -1})
    /\ Running ~> (Done \/ Gone)

\* C20: perform, once entered on a query, never ends otherwise than by
\* returning Success or Failure.
C20_EndsOnlyByReturning ==
    call.fn = "mkares_query_perform_nonnull" /\ call.query = Query =>
        Running \/ Done \/ pc = "deleted"

\* perform returned Failure having used the whole budget on every server
C20_Witness ==
    /\ Done /\ result = -1
    /\ Len(servers) = MaxServers
    /\ Total("getaddrinfo", Len(calls)) = Len(servers)
    /\ Total("socket", Len(calls)) = Len(servers)
    /\ Total("send", Len(calls)) = Len(servers) * attempts

====
